---- MODULE Spec2Model ----
(***************************************************************************)
(* Model of dashboard/dashboard.py: the Streamlit script that loads the    *)
(* air-quality CSV, derives Air_Quality_Category, filters by station and   *)
(* date range and computes the three summary views and two metrics.        *)
(*                                                                         *)
(* One execution of the script is a run: pc walks start -> loaded ->       *)
(* prepared -> selected -> filtered -> done.  A user interaction (Rerun)   *)
(* starts the script again with new widget values; the st.cache_data       *)
(* cache of load_data survives reruns.                                     *)
(*                                                                         *)
(* Values.  A float is [k |-> "num", v |-> n] or NaN.  A CSV date cell is  *)
(* the tuple <<day, time-of-day>> of its text; a Timestamp is the record   *)
(* [day, tod]; a datetime.date is the day number.  A DataFrame is          *)
(* [k |-> "df", columns, rows] with rows a sequence of records.            *)
(***************************************************************************)
EXTENDS Integers, Sequences, FiniteSets

VARIABLES
    fs,               \* file system: path -> file content
    cache,            \* st.cache_data entry of load_data
    parsed,           \* paths pd.read_csv has been called on, in order
    widgets,          \* session widget state (multiselect, date_input)
    pc,               \* position of the script run
    exc,              \* exception that ended the run, "" if none
    ui,               \* presentation calls made by the run, in order
    all_df,
    selected_station,
    start_date,
    end_date,
    main_df,
    avg_pm25,
    avg_pm10,
    daily_df,
    station_melt,
    category_counts

vars == <<fs, cache, parsed, widgets, pc, exc, ui, all_df, selected_station,
          start_date, end_date, main_df, avg_pm25, avg_pm10, daily_df,
          station_melt, category_counts>>

---------------------------------------------------------------------------
(* Bounds of the explored inputs *)

MaxRows == 2      \* longest dataset of the filter specification
MaxDay == 3       \* calendar days 1..MaxDay
MaxPM == 160      \* PM2.5 values 0..MaxPM of the classifier specification

Days == 1..MaxDay
TimesOfDay == {0, 1}          \* 0 is midnight, 1 a later time of the day
Stations == {"A", "B"}
SortedStations == <<"A", "B">>   \* the groupby key order of Stations

---------------------------------------------------------------------------
(* Python / pandas values *)

None == [k |-> "None"]
Unbound == [k |-> "unbound"]          \* a script variable not yet assigned
NaN == [k |-> "nan", v |-> 0]
Num(n) == [k |-> "num", v |-> n]

\* mutant: a comparison with NaN that is true
Leq_nan_true(x, n) == x.k = "nan" \/ x.v <= n

\* float <= int; every comparison with NaN is false
Leq(x, n) == x.k = "num" /\ x.v <= n

DataFrame(cols, rws) == [k |-> "df", columns |-> cols, rows |-> rws]

Paths == <<"dashboard/main_data.csv", "main_data.csv">>

Missing == [k |-> "missing"]
Garbage == [k |-> "garbage"]          \* a file pd.read_csv fails on
Csv(cols, rws) == [k |-> "csv", columns |-> cols, rows |-> rws]

BaseColumns == {"date", "station", "PM2.5", "PM10", "SO2", "NO2"}
CategoryColumn == "Air_Quality_Category"
NoCell == "<no column>"               \* value of a cell of a column the frame lacks

Categories == {"Good", "Moderate", "Unhealthy for Sensitive Groups", "Unhealthy"}

---------------------------------------------------------------------------
(* load_data *)

Raised == [k |-> "raise"]

exists(f, p) == f[p].k # "missing"

read_csv(c) == IF c.k = "csv" THEN DataFrame(c.columns, c.rows) ELSE Raised

\* the path load_data hands to pd.read_csv, <<>> if none
load_data_reads(f) ==
    IF exists(f, Paths[1]) THEN <<Paths[1]>>
    ELSE IF exists(f, Paths[2]) THEN <<Paths[2]>>
    ELSE <<>>

\* mutant: falls back to the second location when the first does not parse
load_data_fallback(f) ==
    LET r == IF exists(f, Paths[1]) /\ read_csv(f[Paths[1]]).k # "raise"
             THEN read_csv(f[Paths[1]])
             ELSE IF exists(f, Paths[2]) THEN read_csv(f[Paths[2]])
             ELSE None
    IN IF r.k = "raise" THEN None ELSE r

load_data(f) ==
    LET r == IF exists(f, Paths[1]) THEN read_csv(f[Paths[1]])
             ELSE IF exists(f, Paths[2]) THEN read_csv(f[Paths[2]])
             ELSE None
    IN IF r.k = "raise" THEN None ELSE r

---------------------------------------------------------------------------
(* categorize_pm25 *)

Threshold1 == 50
Threshold2 == 100
Threshold3 == 150

\* mutant: boundaries exclusive on the lower category
categorize_pm25_strict(pm) ==
    IF Leq(pm, Threshold1 - 1) THEN "Good"
    ELSE IF Leq(pm, Threshold2 - 1) THEN "Moderate"
    ELSE IF Leq(pm, Threshold3 - 1) THEN "Unhealthy for Sensitive Groups"
    ELSE "Unhealthy"

categorize_pm25(pm) ==
    IF Leq(pm, Threshold1) THEN "Good"
    ELSE IF Leq(pm, Threshold2) THEN "Moderate"
    ELSE IF Leq(pm, Threshold3) THEN "Unhealthy for Sensitive Groups"
    ELSE "Unhealthy"

---------------------------------------------------------------------------
(* Preprocess: pd.to_datetime and the derived category column *)

to_datetime(cell) == [day |-> cell[1], tod |-> cell[2]]

\* mutant: the category is recomputed although the column is present
Preprocessed_recompute(df) ==
    DataFrame(
        df.columns \cup {CategoryColumn},
        [i \in 1..Len(df.rows) |->
            [df.rows[i] EXCEPT
                !.date = to_datetime(@),
                !.Air_Quality_Category = categorize_pm25(df.rows[i].PM25)]])

Preprocessed(df) ==
    DataFrame(
        df.columns \cup {CategoryColumn},
        [i \in 1..Len(df.rows) |->
            [df.rows[i] EXCEPT
                !.date = to_datetime(@),
                !.Air_Quality_Category =
                    IF CategoryColumn \notin df.columns
                    THEN categorize_pm25(df.rows[i].PM25)
                    ELSE @]])

---------------------------------------------------------------------------
(* Sidebar: station_list, min_date, max_date, the two widgets *)

TsLeq(a, b) == a.day < b.day \/ (a.day = b.day /\ a.tod <= b.tod)

RECURSIVE unique(_, _)
\* Series.unique(): the distinct values in order of first appearance
unique(s, seen) ==
    IF s = <<>> THEN <<>>
    ELSE IF Head(s) \in seen THEN unique(Tail(s), seen)
    ELSE <<Head(s)>> \o unique(Tail(s), seen \cup {Head(s)})

station_list(df) == unique([i \in 1..Len(df.rows) |-> df.rows[i].station], {})

DatesOf(rws) == {rws[i].date : i \in 1..Len(rws)}

min_date(df) == CHOOSE t \in DatesOf(df.rows) : \A u \in DatesOf(df.rows) : TsLeq(t, u)
max_date(df) == CHOOSE t \in DatesOf(df.rows) : \A u \in DatesOf(df.rows) : TsLeq(u, t)

\* the datetime.date of a Timestamp, as st.date_input takes and returns it
DateOf(t) == t.day

DefaultWidgets == [k |-> "default"]
Widgets(S, r) == [k |-> "set", stations |-> S, range |-> r]

\* st.multiselect: the stored selection, else default=[station_list[0]]
multiselect(w, options) == IF w.k = "set" THEN w.stations ELSE {options[1]}

\* st.date_input: the stored tuple of dates, else value=[min_date, max_date]
date_input(w, lo, hi) == IF w.k = "set" THEN w.range ELSE <<DateOf(lo), DateOf(hi)>>

\* what the user can leave in the widgets: any subset of the options, and
\* one or two dates within [min_value, max_value] (one while the range is
\* being picked)
WidgetChoices(df) ==
    LET opts == {df.rows[i].station : i \in 1..Len(df.rows)}
        lo == DateOf(min_date(df))
        hi == DateOf(max_date(df))
        ranges == {r \in (lo..hi) \X (lo..hi) : r[1] <= r[2]}
    IN {Widgets(S, r) : S \in SUBSET opts, r \in ranges}
       \cup {Widgets(S, <<s>>) : S \in SUBSET opts, s \in lo..hi}

---------------------------------------------------------------------------
(* Filter *)

\* str(date): the text "YYYY-MM-DD", here the tuple of its fields
str(d) == <<d>>

\* a date string compared with a datetime column is parsed to a Timestamp;
\* a string without a time of day is midnight
ParseDateString(s) == [day |-> s[1], tod |-> IF Len(s) > 1 THEN s[2] ELSE 0]

DateMask(r, s, e) ==
    /\ TsLeq(ParseDateString(str(s)), r.date)
    /\ TsLeq(r.date, ParseDateString(str(e)))

DateFilter(rws, s, e) == SelectSeq(rws, LAMBDA r : DateMask(r, s, e))

\* mutant: isin applied to an empty selection too
StationFilter_always(rws, sel) == SelectSeq(rws, LAMBDA r : r.station \in sel)

StationFilter(rws, sel) ==
    IF sel # {} THEN SelectSeq(rws, LAMBDA r : r.station \in sel) ELSE rws

Filtered(df, sel, s, e) ==
    DataFrame(df.columns, StationFilter(DateFilter(df.rows, s, e), sel))

---------------------------------------------------------------------------
(* Aggregation *)

Pollutants == <<"PM2.5", "PM10", "SO2", "NO2">>

Cell(r, col) ==
    CASE col = "PM2.5" -> r.PM25
      [] col = "PM10" -> r.PM10
      [] col = "SO2" -> r.SO2
      [] col = "NO2" -> r.NO2

RECURSIVE SumSeq(_)
SumSeq(s) == IF s = <<>> THEN 0 ELSE Head(s).v + SumSeq(Tail(s))

\* mutant: the mean of nothing is zero
Mean_zero(vals) ==
    LET d == SelectSeq(vals, LAMBDA x : x.k = "num")
    IN IF d = <<>> THEN Num(0)
       ELSE [k |-> "ratio", num |-> SumSeq(d), den |-> Len(d)]

\* Series.mean(): NaN cells are skipped; NaN when nothing is left.  The
\* quotient is kept as the exact fraction num/den.
Mean(vals) ==
    LET d == SelectSeq(vals, LAMBDA x : x.k = "num")
    IN IF d = <<>> THEN NaN
       ELSE [k |-> "ratio", num |-> SumSeq(d), den |-> Len(d)]

Column(rws, col) == [i \in 1..Len(rws) |-> Cell(rws[i], col)]

MinDay(rws) == CHOOSE d \in {t.day : t \in DatesOf(rws)} :
                   \A t \in DatesOf(rws) : d <= t.day
MaxDayOf(rws) == CHOOSE d \in {t.day : t \in DatesOf(rws)} :
                   \A t \in DatesOf(rws) : t.day <= d

\* mutant: a groupby on the day, which has no bin for a day without readings
DailyTrend_groupby(rws) ==
    LET present == SelectSeq([i \in 1..MaxDay |-> i],
                       LAMBDA d : \E i \in 1..Len(rws) : rws[i].date.day = d)
    IN [j \in 1..Len(present) |->
           [date |-> [day |-> present[j], tod |-> 0],
            PM25 |-> Mean(Column(
                SelectSeq(rws, LAMBDA r : r.date.day = present[j]),
                "PM2.5"))]]

\* resample(rule='D', on='date').agg({"PM2.5": "mean"}).reset_index():
\* one bin per calendar day from the first to the last day of the frame
DailyTrend(rws) ==
    IF rws = <<>> THEN <<>>
    ELSE LET lo == MinDay(rws)
             hi == MaxDayOf(rws)
         IN [i \in 1..(hi - lo + 1) |->
                [date |-> [day |-> lo + i - 1, tod |-> 0],
                 PM25 |-> Mean(Column(
                     SelectSeq(rws, LAMBDA r : r.date.day = lo + i - 1),
                     "PM2.5"))]]

\* mutant: no grouping, one row per reading
StationAvg_ungrouped(rws) ==
    [g \in 1..Len(rws) |->
        [station |-> rws[g].station,
         means |-> [p \in 1..Len(Pollutants) |-> Cell(rws[g], Pollutants[p])]]]

\* groupby('station')[...].mean().reset_index(): one row per station key
\* present, keys sorted
StationAvg(rws) ==
    LET keys == SelectSeq(SortedStations,
                    LAMBDA s : \E i \in 1..Len(rws) : rws[i].station = s)
    IN [g \in 1..Len(keys) |->
           [station |-> keys[g],
            means |-> [p \in 1..Len(Pollutants) |->
                Mean(Column(SelectSeq(rws, LAMBDA r : r.station = keys[g]),
                            Pollutants[p]))]]]

\* melt(id_vars='station'): for each value column in turn, every row
StationMelt(avg) ==
    LET G == Len(avg)
    IN [j \in 1..(Len(Pollutants) * G) |->
           LET p == ((j - 1) \div G) + 1
               g == ((j - 1) % G) + 1
           IN [station |-> avg[g].station,
               Pollutant |-> Pollutants[p],
               Concentration |-> avg[g].means[p]]]

StationComparison(rws) == [k |-> "df", rows |-> StationMelt(StationAvg(rws))]

\* Series.value_counts(): the values present, each with its count
CategoryCounts(rws) ==
    LET present == {rws[i].Air_Quality_Category : i \in 1..Len(rws)}
    IN [k |-> "series",
        counts |-> [c \in present |->
            Cardinality({i \in 1..Len(rws) : rws[i].Air_Quality_Category = c})]]

---------------------------------------------------------------------------
(* The script run *)

\* header, then load_data() through its st.cache_data cache
Load ==
    /\ pc = "start"
    /\ ui' = Append(ui, "header")
    /\ IF cache.k = "hit"
       THEN /\ all_df' = cache.value
            /\ UNCHANGED <<cache, parsed>>
       ELSE /\ all_df' = load_data(fs)
            /\ cache' = [k |-> "hit", value |-> load_data(fs)]
            /\ parsed' = parsed \o load_data_reads(fs)
    /\ pc' = "loaded"
    /\ UNCHANGED <<fs, widgets, exc, selected_station, start_date, end_date,
                   main_df, avg_pm25, avg_pm10, daily_df, station_melt,
                   category_counts>>

\* mutant: the script ends without the error message
ShowError_silent ==
    /\ pc = "loaded"
    /\ all_df.k = "None"
    /\ pc' = "done"
    /\ UNCHANGED <<fs, cache, parsed, widgets, exc, ui, all_df,
                   selected_station, start_date, end_date, main_df, avg_pm25,
                   avg_pm10, daily_df, station_melt, category_counts>>

\* all_df is None: st.error, and the script ends
ShowError ==
    /\ pc = "loaded"
    /\ all_df.k = "None"
    /\ ui' = Append(ui, "error")
    /\ pc' = "done"
    /\ UNCHANGED <<fs, cache, parsed, widgets, exc, all_df, selected_station,
                   start_date, end_date, main_df, avg_pm25, avg_pm10,
                   daily_df, station_melt, category_counts>>

Preprocess ==
    /\ pc = "loaded"
    /\ all_df.k = "df"
    /\ all_df' = Preprocessed(all_df)
    /\ pc' = "prepared"
    /\ UNCHANGED <<fs, cache, parsed, widgets, exc, ui, selected_station,
                   start_date, end_date, main_df, avg_pm25, avg_pm10,
                   daily_df, station_melt, category_counts>>

Sidebar ==
    /\ pc = "prepared"
    /\ all_df.rows # <<>>
    /\ LET dates == date_input(widgets, min_date(all_df), max_date(all_df))
       IN /\ Len(dates) = 2
          /\ start_date' = dates[1]
          /\ end_date' = dates[2]
    /\ selected_station' = multiselect(widgets, station_list(all_df))
    /\ ui' = Append(ui, "sidebar")
    /\ pc' = "selected"
    /\ UNCHANGED <<fs, cache, parsed, widgets, exc, all_df, main_df, avg_pm25,
                   avg_pm10, daily_df, station_melt, category_counts>>

\* station_list[0] of a frame without rows
SidebarIndexError ==
    /\ pc = "prepared"
    /\ all_df.rows = <<>>
    /\ exc' = "IndexError"
    /\ pc' = "raised"
    /\ UNCHANGED <<fs, cache, parsed, widgets, ui, all_df, selected_station,
                   start_date, end_date, main_df, avg_pm25, avg_pm10,
                   daily_df, station_melt, category_counts>>

\* start_date, end_date = (one date,)
SidebarUnpackError ==
    /\ pc = "prepared"
    /\ all_df.rows # <<>>
    /\ Len(date_input(widgets, min_date(all_df), max_date(all_df))) # 2
    /\ selected_station' = multiselect(widgets, station_list(all_df))
    /\ exc' = "ValueError"
    /\ pc' = "raised"
    /\ UNCHANGED <<fs, cache, parsed, widgets, ui, all_df, start_date,
                   end_date, main_df, avg_pm25, avg_pm10, daily_df,
                   station_melt, category_counts>>

Filter ==
    /\ pc = "selected"
    /\ main_df' = Filtered(all_df, selected_station, start_date, end_date)
    /\ pc' = "filtered"
    /\ UNCHANGED <<fs, cache, parsed, widgets, exc, ui, all_df,
                   selected_station, start_date, end_date, avg_pm25, avg_pm10,
                   daily_df, station_melt, category_counts>>

\* metrics, daily trend, station comparison, category distribution
Aggregate ==
    /\ pc = "filtered"
    /\ avg_pm25' = Mean(Column(main_df.rows, "PM2.5"))
    /\ avg_pm10' = Mean(Column(main_df.rows, "PM10"))
    /\ daily_df' = [k |-> "df", rows |-> DailyTrend(main_df.rows)]
    /\ IF Cardinality(selected_station) > 0
       THEN station_melt' = StationComparison(main_df.rows)
       ELSE station_melt' = station_melt
    /\ category_counts' = CategoryCounts(main_df.rows)
    /\ ui' = ui \o <<"metric", "metric", "pyplot daily">>
                \o (IF Cardinality(selected_station) > 0
                    THEN <<"pyplot station">> ELSE <<"info">>)
                \o <<"pyplot category", "caption">>
    /\ pc' = "done"
    /\ UNCHANGED <<fs, cache, parsed, widgets, exc, all_df, selected_station,
                   start_date, end_date, main_df>>

\* a user interaction or a page refresh: the script starts again with the
\* widget values the user left; only the cache and the widgets survive
Rerun ==
    /\ pc \in {"done", "raised"}
    /\ \E w \in (IF all_df.k = "df" /\ all_df.rows # <<>>
                 THEN WidgetChoices(all_df) ELSE {widgets}) :
           widgets' = w
    /\ pc' = "start"
    /\ exc' = ""
    /\ ui' = <<>>
    /\ all_df' = Unbound
    /\ selected_station' = {}
    /\ start_date' = 0
    /\ end_date' = 0
    /\ main_df' = Unbound
    /\ avg_pm25' = Unbound
    /\ avg_pm10' = Unbound
    /\ daily_df' = Unbound
    /\ station_melt' = Unbound
    /\ category_counts' = Unbound
    /\ UNCHANGED <<fs, cache, parsed>>

Next ==
    \/ Load
    \/ ShowError
    \/ Preprocess
    \/ Sidebar
    \/ SidebarIndexError
    \/ SidebarUnpackError
    \/ Filter
    \/ Aggregate
    \/ Rerun

---------------------------------------------------------------------------
(* Initial states: the files on disk when the process starts *)

SeqsUpTo(S, n) == UNION {[1..m -> S] : m \in 0..n}

\* datasets of the filter specification: dates and stations vary
FilterReadings ==
    [date : Days \X TimesOfDay, station : Stations,
     PM25 : {Num(40)}, PM10 : {Num(60)}, SO2 : {Num(5)}, NO2 : {Num(30)},
     Air_Quality_Category : {NoCell}]

FilterDatasets == {Csv(BaseColumns, rws) : rws \in SeqsUpTo(FilterReadings, MaxRows)}

\* datasets of the classifier specification: PM2.5 and the category column vary
PMSamples == {NaN} \cup {Num(t + d) : t \in {Threshold1, Threshold2, Threshold3},
                                     d \in {0, 1}}

LabelReadings(pms, labels) ==
    [date : {<<1, 0>>}, station : {"A"},
     PM25 : pms, PM10 : {Num(60)}, SO2 : {Num(5)}, NO2 : {Num(30)},
     Air_Quality_Category : labels]

LabelDatasets ==
    {Csv(BaseColumns, <<r>>) :
        r \in LabelReadings({Num(n) : n \in 0..MaxPM}, {NoCell})}
    \cup {Csv(BaseColumns, rws) :
        rws \in SeqsUpTo(LabelReadings(PMSamples, {NoCell}), MaxRows)}
    \cup {Csv(BaseColumns \cup {CategoryColumn}, rws) :
        rws \in SeqsUpTo(LabelReadings(PMSamples, {"Good", "Unhealthy"}), MaxRows)}

\* a parsable file that is none of the datasets above
OtherCsv ==
    Csv(BaseColumns,
        <<[date |-> <<1, 0>>, station |-> "B", PM25 |-> Num(75),
           PM10 |-> Num(60), SO2 |-> Num(5), NO2 |-> Num(30),
           Air_Quality_Category |-> NoCell]>>)

Files(a, b) == [p \in {Paths[1], Paths[2]} |-> IF p = Paths[1] THEN a ELSE b]

FileSystems(datasets) ==
    {Files(d, OtherCsv) : d \in datasets}
    \cup {Files(Missing, d) : d \in datasets}
    \cup {Files(a, b) : a \in {Missing, Garbage, OtherCsv},
                        b \in {Missing, Garbage, OtherCsv}}

InitOn(datasets) ==
    /\ fs \in FileSystems(datasets)
    /\ cache = [k |-> "empty"]
    /\ parsed = <<>>
    /\ widgets = DefaultWidgets
    /\ pc = "start"
    /\ exc = ""
    /\ ui = <<>>
    /\ all_df = Unbound
    /\ selected_station = {}
    /\ start_date = 0
    /\ end_date = 0
    /\ main_df = Unbound
    /\ avg_pm25 = Unbound
    /\ avg_pm10 = Unbound
    /\ daily_df = Unbound
    /\ station_melt = Unbound
    /\ category_counts = Unbound

Init == InitOn(FilterDatasets)
InitLabel == InitOn(LabelDatasets)

\* the filter and aggregation pipeline over datasets of varying dates and stations
Spec == Init /\ [][Next]_vars

\* the classifier over datasets of varying PM2.5 and category column
SpecLabel == InitLabel /\ [][Next]_vars

---------------------------------------------------------------------------
(* Vocabulary of the properties *)

\* the run has derived the category column
Classified == all_df.k = "df" /\ pc \notin {"start", "loaded"}

\* the run has filtered
HasFiltered == main_df.k = "df"

\* the run went through every stage of the dashboard
Completed == pc = "done" /\ all_df.k = "df"

\* the frame load_data returned had a category column of its own
Prelabeled == cache.k = "hit" /\ cache.value.k = "df"
                 /\ CategoryColumn \in cache.value.columns

Has(rws, r) == \E j \in 1..Len(rws) : rws[j] = r

DaysWithReadings(rws) == {rws[i].date.day : i \in 1..Len(rws)}
StationsWithReadings(rws) == {rws[i].station : i \in 1..Len(rws)}

\* rows of the station comparison
MeltRows(s, p) ==
    {j \in 1..Len(station_melt.rows) :
        station_melt.rows[j].station = s /\ station_melt.rows[j].Pollutant = p}

PollutantSet == {"PM2.5", "PM10", "SO2", "NO2"}

OneRowPerPair ==
    /\ station_melt.k = "df"
    /\ \A s \in StationsWithReadings(main_df.rows) : \A p \in PollutantSet :
           Cardinality(MeltRows(s, p)) = 1
    /\ \A j \in 1..Len(station_melt.rows) :
           /\ station_melt.rows[j].station \in StationsWithReadings(main_df.rows)
           /\ station_melt.rows[j].Pollutant \in PollutantSet

StationGroups ==
    {station_melt.rows[j].station : j \in 1..Len(station_melt.rows)}

\* days of the daily trend
TrendDays == {daily_df.rows[j].date.day : j \in 1..Len(daily_df.rows)}

TrendOrdered ==
    \A j \in 1..(Len(daily_df.rows) - 1) :
        daily_df.rows[j].date.day < daily_df.rows[j + 1].date.day

---------------------------------------------------------------------------
(* C1 - every defined PM2.5 value gets the category of the threshold table:
   Good up to and including 50, Moderate above 50 up to and including 100,
   Unhealthy for Sensitive Groups above 100 up to and including 150,
   Unhealthy above 150; always one of the four categories. *)
C1_ThresholdTable ==
    (Classified /\ ~Prelabeled) =>
        \A i \in 1..Len(all_df.rows) :
            LET pm == all_df.rows[i].PM25
                cat == all_df.rows[i].Air_Quality_Category
            IN pm.k = "num" =>
                /\ cat \in Categories
                /\ (pm.v <= 50) => cat = "Good"
                /\ (50 < pm.v /\ pm.v <= 100) => cat = "Moderate"
                /\ (100 < pm.v /\ pm.v <= 150) =>
                       cat = "Unhealthy for Sensitive Groups"
                /\ (pm.v > 150) => cat = "Unhealthy"

\* a reading of exactly 150 classified into the lower category
C1_Witness ==
    /\ Classified /\ ~Prelabeled
    /\ \E i \in 1..Len(all_df.rows) :
           /\ all_df.rows[i].PM25 = Num(150)
           /\ all_df.rows[i].Air_Quality_Category = "Unhealthy for Sensitive Groups"

---------------------------------------------------------------------------
(* C2 - the date filter keeps exactly the readings whose calendar day lies
   in [start_date, end_date], whatever their time of day (among the
   readings the station filter lets through). *)
C2_DayInclusive ==
    HasFiltered =>
        \A i \in 1..Len(all_df.rows) :
            LET r == all_df.rows[i]
            IN (selected_station = {} \/ r.station \in selected_station) =>
                   (Has(main_df.rows, r) <=>
                       (start_date <= r.date.day /\ r.date.day <= end_date))

---------------------------------------------------------------------------
(* C3 - with an empty station selection the filtered rows are those of the
   date filter alone, the same as selecting every station of the dataset;
   with a non-empty selection they are the date-filtered rows whose station
   is selected. *)
C3_EmptySelectionIsAll ==
    HasFiltered =>
        LET dated == DateFilter(all_df.rows, start_date, end_date)
            everyone == StationsWithReadings(all_df.rows)
        IN /\ selected_station = {} =>
                /\ main_df.rows = dated
                /\ main_df.rows =
                       SelectSeq(dated, LAMBDA r : r.station \in everyone)
           /\ selected_station # {} =>
                /\ \A j \in 1..Len(main_df.rows) :
                       main_df.rows[j].station \in selected_station
                /\ main_df.rows =
                       SelectSeq(dated, LAMBDA r : r.station \in selected_station)

\* nothing selected, and readings of two stations retained
C3_Witness ==
    /\ HasFiltered
    /\ selected_station = {}
    /\ Cardinality(StationsWithReadings(main_df.rows)) = 2

---------------------------------------------------------------------------
(* C4 as stated - for every selection, the empty station set included, the
   station comparison is computed over the filtered dataset and holds
   exactly one row per (station, pollutant) pair for the stations with a
   reading in the filtered dataset. *)
C4_AsStated == Completed => OneRowPerPair

(* C4 amended - with a non-empty station set the station comparison is
   computed over the filtered dataset and holds exactly one row per
   (station, pollutant) pair for the stations with a reading in the filtered
   dataset and no other row; one selected station gives one station group
   when the filtered dataset is non-empty and none when it is empty.  With
   an empty station set no station comparison is computed: an info message
   is shown in its place. *)
C4_NonEmptySelection ==
    Completed =>
        /\ selected_station # {} =>
               /\ OneRowPerPair
               /\ "pyplot station" \in {ui[n] : n \in 1..Len(ui)}
               /\ Cardinality(selected_station) = 1 =>
                      Cardinality(StationGroups) =
                          (IF main_df.rows = <<>> THEN 0 ELSE 1)
        /\ selected_station = {} =>
               /\ station_melt = Unbound
               /\ "info" \in {ui[n] : n \in 1..Len(ui)}
               /\ "pyplot station" \notin {ui[n] : n \in 1..Len(ui)}

\* two stations selected, a reading of each retained: eight rows
C4_Witness ==
    /\ Completed
    /\ Cardinality(selected_station) = 2
    /\ Cardinality(StationsWithReadings(main_df.rows)) = 2
    /\ station_melt.k = "df"
    /\ Len(station_melt.rows) = 8

---------------------------------------------------------------------------
(* C5 as stated - the daily trend has one entry for exactly the calendar
   days on which the filtered dataset has a reading, in date order; a day
   without readings does not appear. *)
C5_AsStated ==
    Completed =>
        /\ TrendDays = DaysWithReadings(main_df.rows)
        /\ TrendOrdered

(* C5 amended - the daily trend has one entry for every calendar day from
   the first to the last day of the filtered dataset, in date order (none
   when the filtered dataset is empty); a day in between without readings
   appears with an undefined mean, neither absent nor zero, and a day with a
   defined PM2.5 reading has a defined mean. *)
C5_EveryDayOfSpan ==
    Completed =>
        /\ TrendOrdered
        /\ \A d \in Days :
               (d \in TrendDays) <=>
                   \E a, b \in DaysWithReadings(main_df.rows) : a <= d /\ d <= b
        /\ \A j \in 1..Len(daily_df.rows) :
               LET d == daily_df.rows[j].date.day
               IN (daily_df.rows[j].PM25 = NaN) <=>
                      ~ \E i \in 1..Len(main_df.rows) :
                            /\ main_df.rows[i].date.day = d
                            /\ main_df.rows[i].PM25.k = "num"

\* readings on two days with an empty day between them
C5_Witness ==
    /\ Completed
    /\ Len(daily_df.rows) = 3
    /\ daily_df.rows[2].PM25 = NaN
    /\ daily_df.rows[2].date.day \notin DaysWithReadings(main_df.rows)

---------------------------------------------------------------------------
(* C6 - load_data reads only the first of the two locations that exists:
   the first when it exists, else the second when it exists, else none.  It
   returns the whole frame of that file, or None when the file does not
   parse or neither exists; it never reads the second after the first
   exists. *)
C6_FirstExistingOnly ==
    cache.k = "hit" =>
        LET first == fs[Paths[1]]
            second == fs[Paths[2]]
            chosen == IF first # Missing THEN first ELSE second
        IN /\ first # Missing => parsed = <<Paths[1]>>
           /\ (first = Missing /\ second # Missing) => parsed = <<Paths[2]>>
           /\ (first = Missing /\ second = Missing) => parsed = <<>>
           /\ chosen.k = "csv" =>
                  cache.value = DataFrame(chosen.columns, chosen.rows)
           /\ chosen.k # "csv" => cache.value = None
           /\ pc = "loaded" => all_df = cache.value

\* the first file exists and does not parse, the second would: None
C6_Witness ==
    /\ cache.k = "hit"
    /\ fs[Paths[1]] = Garbage
    /\ fs[Paths[2]].k = "csv"
    /\ cache.value = None
    /\ parsed = <<Paths[1]>>

---------------------------------------------------------------------------
(* C7 - when load_data returned None the run shows the header and exactly
   one error message, assigns none of the later variables (no category, no
   selection, no filter, no aggregate, no chart) and ends without raising. *)
C7_AbsentShowsOneError ==
    (all_df.k = "None") =>
        /\ pc \in {"loaded", "done"}
        /\ exc = ""
        /\ pc = "done" => ui = <<"header", "error">>
        /\ pc = "loaded" => ui = <<"header">>
        /\ selected_station = {}
        /\ main_df = Unbound
        /\ avg_pm25 = Unbound /\ avg_pm10 = Unbound
        /\ daily_df = Unbound
        /\ station_melt = Unbound
        /\ category_counts = Unbound

C7_Witness == all_df.k = "None" /\ pc = "done"

---------------------------------------------------------------------------
(* C8 - when the selection matches no reading the run completes: no
   exception is raised once the filter has run, the filtered dataset is
   empty, the daily trend and the category distribution are empty, the
   station comparison has no row (computed and empty when stations are
   selected, not computed when none is, see C4), and the mean PM2.5 and mean
   PM10 are undefined, not zero. *)
C8_EmptyDegrades ==
    /\ HasFiltered => (exc = "" /\ pc \in {"filtered", "done"})
    /\ (Completed /\ main_df.rows = <<>>) =>
           /\ daily_df = [k |-> "df", rows |-> <<>>]
           /\ DOMAIN category_counts.counts = {}
           /\ selected_station # {} => station_melt = [k |-> "df", rows |-> <<>>]
           /\ selected_station = {} => station_melt = Unbound
           /\ avg_pm25 = NaN /\ avg_pm25 # Num(0)
           /\ avg_pm10 = NaN /\ avg_pm10 # Num(0)

\* a station selected, the interval a day without readings
C8_Witness ==
    /\ Completed
    /\ main_df.rows = <<>>
    /\ selected_station # {}
    /\ start_date = end_date
    /\ start_date \notin DaysWithReadings(all_df.rows)

---------------------------------------------------------------------------
(* C9 - when the loaded frame has an Air_Quality_Category column every
   reading keeps the value it came with, also when that disagrees with the
   threshold rule; when it has none every reading gets categorize_pm25 of
   its own PM2.5. *)
C9_OnlyWhenAbsent ==
    Classified =>
        /\ Len(all_df.rows) = Len(cache.value.rows)
        /\ \A i \in 1..Len(all_df.rows) :
               /\ all_df.rows[i].PM25 = cache.value.rows[i].PM25
               /\ all_df.rows[i].Air_Quality_Category =
                      IF Prelabeled
                      THEN cache.value.rows[i].Air_Quality_Category
                      ELSE categorize_pm25(cache.value.rows[i].PM25)

\* a reading labelled Good in the file although its PM2.5 is above 150
C9_Witness ==
    /\ Classified /\ Prelabeled
    /\ \E i \in 1..Len(all_df.rows) :
           /\ all_df.rows[i].PM25 = Num(151)
           /\ all_df.rows[i].Air_Quality_Category = "Good"

---------------------------------------------------------------------------
(* C10 - a reading whose PM2.5 is NaN is classified without an exception
   and gets the label Unhealthy, never a label outside the four; the
   category distribution counts it under Unhealthy together with the
   readings above 150. *)
C10_MissingIsUnhealthy ==
    (Classified /\ ~Prelabeled) =>
        /\ exc \in {"", "IndexError", "ValueError"}
        /\ \A i \in 1..Len(all_df.rows) :
               all_df.rows[i].PM25 = NaN =>
                   all_df.rows[i].Air_Quality_Category = "Unhealthy"
        /\ Completed =>
               LET missing == {i \in 1..Len(main_df.rows) :
                                  main_df.rows[i].PM25 = NaN}
                   above == {i \in 1..Len(main_df.rows) :
                                  /\ main_df.rows[i].PM25.k = "num"
                                  /\ main_df.rows[i].PM25.v > 150}
               IN /\ missing # {} =>
                       "Unhealthy" \in DOMAIN category_counts.counts
                  /\ "Unhealthy" \in DOMAIN category_counts.counts =>
                       category_counts.counts["Unhealthy"] =
                           Cardinality(missing) + Cardinality(above)

\* two readings without PM2.5, both counted as Unhealthy
C10_Witness ==
    /\ Completed /\ ~Prelabeled
    /\ Len(main_df.rows) = 2
    /\ \A i \in 1..2 : main_df.rows[i].PM25 = NaN
    /\ category_counts.counts = [c \in {"Unhealthy"} |-> 2]

====
